---- MODULE Spec2Model ----
(***************************************************************************)
(* Air-wire (ratsnest) builder of LibrePCB:                                *)
(*   libs/librepcb/common/algorithm/airwiresbuilder.cpp                    *)
(* addPoint / addEdge register the points of one net and the connections   *)
(* that already exist; buildAirWires generates candidate edges and runs    *)
(* Kruskal's algorithm over known and candidate edges.                     *)
(*                                                                         *)
(* Coordinates are nanometres.  A point is a record [x, y, id]; an edge is *)
(* a record [p1, p2, weight] holding copies of its two points, as          *)
(* delaunay::Edge does.  The field Vector2::tag is written by kruskalMst   *)
(* (lines 138, 199) and never read, so it is not part of the model.        *)
(* calls counts the calls of buildAirWires on the builder and lastCall     *)
(* records the outcome of the latest one.                                  *)
(*                                                                         *)
(* The module also holds the stepping of the length spin box,              *)
(*   libs/librepcb/common/widgets/lengtheditbase.cpp                       *)
(* whose fields are the variables mMinimum .. mUnit, and the saving and    *)
(* the schematic list of a project,                                        *)
(*   eda4u/project/project.cpp                                             *)
(* whose fields are the variables mIsReadOnly .. mRemovedSchematics.       *)
(***************************************************************************)
EXTENDS Integers, Sequences, FiniteSets, TLC

VARIABLES mPoints, mEdges, calls, lastCall,
          mMinimum, mMaximum, mValue, mSteps, mSingleStepUp, mSingleStepDown,
          mUnit, lastEdit,
          mIsReadOnly, mIsRestored, mProjectIsModified, mUndoStack,
          mSchematics, mRemovedSchematics, deleted, lastProject

\* the fields of a LengthEditBase (widgets/lengtheditbase.h, lines 109-115),
\* and what the model records of the last operation on it
editVars == <<mMinimum, mMaximum, mValue, mSteps, mSingleStepUp, mSingleStepDown,
              mUnit, lastEdit>>

\* the fields of an AirWiresBuilder, and what the model records of its calls
builderVars == <<mPoints, mEdges, calls, lastCall>>

\* the fields of a Project that saving and the schematic list read and
\* write, the schematics deleted by removeSchematic, and what the model
\* records of the last operation on the project
projectVars == <<mIsReadOnly, mIsRestored, mProjectIsModified, mUndoStack,
                 mSchematics, mRemovedSchematics, deleted, lastProject>>

vars == <<mPoints, mEdges, calls, lastCall,
          mMinimum, mMaximum, mValue, mSteps, mSingleStepUp, mSingleStepDown,
          mUnit, lastEdit,
          mIsReadOnly, mIsRestored, mProjectIsModified, mUndoStack,
          mSchematics, mRemovedSchematics, deleted, lastProject>>

(***************************************************************************)
(* Bounds of the model.                                                    *)
(***************************************************************************)
\* the number of addPoint and addEdge calls made on one builder
MaxSize == 4

\* the number of points registered at the place of an earlier point
MaxCoincident == 1

\* the number of buildAirWires calls made on one builder where the call is
\* repeated
MaxCalls == 2

(***************************************************************************)
(* Coordinates the points are drawn from.  Universe mixes a proper         *)
(* triangle, a horizontal line and coincident points; LineUniverse is a    *)
(* vertical line; NearUniverse holds the points of the unit test           *)
(* testThreeUnconnectedPointsVshape; HorizontalUniverse is the line of     *)
(* the unit test testThreeUnconnectedColinearPoints with its points more   *)
(* than 1000 nm apart.                                                     *)
(***************************************************************************)
Universe == { <<0, 0>>, <<2000, 0>>, <<0, 3000>>, <<6000, 0>> }
LineUniverse == { <<0, 0>>, <<0, 2000>>, <<0, 4000>> }
NearUniverse == { <<-5, 0>>, <<10, 0>>, <<0, -100>> }
HorizontalUniverse == { <<-2000, 0>>, <<0, 0>>, <<2000, 0>> }
AgainUniverse == { <<0, 0>>, <<2000, 0>>, <<0, 3000>> }

\* points at and just beyond the minimum separation from (0, 0)
ThresholdUniverse == { <<0, 0>>, <<2000, 0>>, <<0, 1000>>, <<0, 1001>> }

\* the corners of a triangle with two sides of equal length
TieUniverse == { <<0, 0>>, <<2000, 0>>, <<0, 2000>> }

\* places up to 2^27 + 1 nm (134 mm) from the origin
FarUniverse ==
    { <<0, 0>>, <<1, 0>>, <<0, 1>>, <<2000, 0>>,
      <<134217729, 0>>, <<134217728, 16384>>, <<0, 134217729>>, <<-134217728, -16384>> }

(***************************************************************************)
(* Small helpers.                                                          *)
(***************************************************************************)
Abs(n) == IF n < 0 THEN -n ELSE n

Ids(points) == 0 .. (Len(points) - 1)

\* mPoints[i] of the C++ vector (0-based)
At(seq, i) == seq[i + 1]

(***************************************************************************)
(* The points are stored as delaunay::Vector2<qreal> and the weights as    *)
(* the qreal of delaunay::Edge<qreal> (lines 70, 79, 150): coordinates and *)
(* weights are doubles.  A double is modelled by the integer it holds, as  *)
(* a record [hi, lo] of value hi * Limb + lo with 0 <= lo < Limb, so that  *)
(* squared distances of coordinates up to 2^28 nm are representable; every *)
(* operation rounds its exact result to Mantissa significant bits, ties to *)
(* even, as IEEE 754 does.                                                 *)
(***************************************************************************)
\* significant bits of a qreal (double)
Mantissa == 53

\* 2^14 and 2^28
HalfLimb == 16384
Limb == 268435456

RECURSIVE BitLength(_)
BitLength(n) == IF n = 0 THEN 0 ELSE 1 + BitLength(n \div 2)

RECURSIVE Pow2(_)
Pow2(k) == IF k = 0 THEN 1 ELSE 2 * Pow2(k - 1)

\* the record of value hi * Limb + lo, lo brought into 0 .. Limb - 1
Wide(hi, lo) == [hi |-> hi + (lo \div Limb), lo |-> lo % Limb]

\* the integer a record stands for (where it is below 2^31)
Value(w) == w.hi * Limb + w.lo

\* d * d, exact, for 0 <= d < 2^28
SquareExact(d) ==
    LET a == d \div HalfLimb
        b == d % HalfLimb
        t == 2 * a * b
    IN  Wide(a * a + (t \div HalfLimb), (t % HalfLimb) * HalfLimb + b * b)

\* u + v, exact
AddExact(u, v) == Wide(u.hi + v.hi, u.lo + v.lo)

\* rounding of an exact result to a double
RoundToReal(w) ==
    LET bits == IF w.hi = 0 THEN BitLength(w.lo) ELSE 28 + BitLength(w.hi)
    IN  IF bits <= Mantissa THEN w
        ELSE LET unit == Pow2(bits - Mantissa)
                 q    == w.lo \div unit
                 r    == w.lo % unit
                 up   == IF 2 * r > unit \/ (2 * r = unit /\ q % 2 = 1) THEN 1 ELSE 0
             IN  Wide(w.hi, (q + up) * unit)

\* Vector2::dist2 on doubles: dx * dx + dy * dy, each operation rounded
Dist2Real(p, q) ==
    RoundToReal(AddExact(RoundToReal(SquareExact(Abs(p.x - q.x))),
                         RoundToReal(SquareExact(Abs(p.y - q.y)))))

\* Vector2::dist2 for points whose squared distance is below 2^31
Dist2(p, q) == Value(Dist2Real(p, q))

\* Edge(p1, p2, w)
Edge(p, q, w) == [p1 |-> p, p2 |-> q, weight |-> w]

\* weight given to an edge by addEdge and by the candidate generator before
\* the weighting loop
KnownWeight == -1

\* squared minimum separation of arePointsColinear (1e6 nm^2)
MinSeparation2 == 1000000

\* the value of the unsigned expression nodeNumber - 1 for nodeNumber = 0,
\* saturated to the largest integer the model checker represents
UIntMax == 2147483647

(***************************************************************************)
(* arePointsColinear (lines 98-120).                                       *)
(*                                                                         *)
(* The code compares a = atan2(v.y, v.x), moved into [0, pi] by adding pi  *)
(* to a negative angle, with the reference angle a0 of p1 - p0.  The model *)
(* represents the normalised angle by a vector that has it:                *)
(*   atan2(0, 0) = 0                    -> the direction (1, 0)            *)
(*   a < 0 (exactly when v.y < 0)       -> the opposite vector (a + pi)    *)
(*   a >= 0 (v.y > 0, or v.y = 0)       -> the vector itself; in           *)
(*                                         particular (x < 0, 0) keeps pi  *)
(***************************************************************************)
Vec(p, q) == [x |-> q.x - p.x, y |-> q.y - p.y]

Norm2(v) == v.x * v.x + v.y * v.y

Cross(u, v) == u.x * v.y - u.y * v.x

Dot(u, v) == u.x * v.x + u.y * v.y

NormAngle(v) ==
    IF v.x = 0 /\ v.y = 0 THEN [x |-> 1, y |-> 0]
    ELSE IF v.y < 0 THEN [x |-> -v.x, y |-> -v.y]
    ELSE v

\* std::abs(a - a0) > 1e-6 for the normalised angles a of v and a0 of u.
\* Both lie in [0, pi], so they are within 1e-6 only if the vectors point
\* the same way (Dot > 0) and |sin| = |Cross| / (|u| |v|) <= 1e-6, that is
\* (|u|^2 / c) (|v|^2 / c) >= 1e12 with c = |Cross|, evaluated on integer
\* quotients to stay inside the 32-bit integer range of TLC.
AngleDiffers(u, v) ==
    LET a0 == NormAngle(u)
        a  == NormAngle(v)
        c  == Abs(Cross(a0, a))
    IN  IF Dot(a0, a) <= 0 THEN TRUE
        ELSE IF c = 0 THEN FALSE
        ELSE ((Norm2(a0) \div c) \div 1000) * ((Norm2(a) \div c) \div 1000)
                 < 1000000

\* mutant: a point at the minimum separation takes part
PointOffLineInclusive(points, i) ==
    LET p0 == At(points, 0)
        vp == Vec(p0, At(points, i))
    IN  /\ Norm2(vp) >= MinSeparation2
        /\ AngleDiffers(Vec(p0, At(points, 1)), vp)

\* the test applied to the point with index i >= 2
PointOffLine(points, i) ==
    LET p0 == At(points, 0)
        vp == Vec(p0, At(points, i))
    IN  /\ Norm2(vp) > MinSeparation2
        /\ AngleDiffers(Vec(p0, At(points, 1)), vp)

\* mutant: only the third point is tested
ColinearFirstThree(points) ==
    IF Len(points) < 3 THEN TRUE
    ELSE ~PointOffLine(points, 2)

ArePointsColinear(points) ==
    IF Len(points) < 3 THEN TRUE
    ELSE \A i \in 2 .. (Len(points) - 1) : ~PointOffLine(points, i)

(***************************************************************************)
(* std::sort of the points by x (lines 70-73).  std::sort is not stable:   *)
(* the order of points with equal x is unspecified, so the model yields    *)
(* every ordering that std::sort may return.                               *)
(***************************************************************************)
RECURSIVE SortedByXFrom(_, _)
SortedByXFrom(points, S) ==
    IF S = {} THEN { <<>> }
    ELSE UNION { { <<points[i]>> \o t : t \in SortedByXFrom(points, S \ {i}) } :
                 i \in { j \in S : \A k \in S : points[j].x <= points[k].x } }

SortedByX(points) == SortedByXFrom(points, DOMAIN points)

\* lines 74-76: an edge between every two consecutive sorted points
PathEdges(sortedPoints) ==
    [i \in 1 .. (Len(sortedPoints) - 1) |->
        Edge(sortedPoints[i], sortedPoints[i + 1], KnownWeight)]

(***************************************************************************)
(* delaunay::Delaunay::triangulate / getEdges (called at lines 79-81).     *)
(* The triangulation is the planar Delaunay triangulation by its           *)
(* definition: the triangles of three registered points that are not on    *)
(* one line and whose circumcircle has no registered point strictly        *)
(* inside; its edge set is the sides of these triangles.  A point set on   *)
(* one line has no such triangle and hence no edge.  The predicates are    *)
(* invariant under scaling, so they are evaluated on the coordinates       *)
(* relative to the first point divided by their common divisor.            *)
(***************************************************************************)
RECURSIVE Gcd(_, _)
Gcd(a, b) == IF b = 0 THEN a ELSE Gcd(b, a % b)

RECURSIVE GcdOfSeq(_, _)
GcdOfSeq(ns, i) ==
    IF i > Len(ns) THEN 0 ELSE Gcd(Abs(ns[i]), GcdOfSeq(ns, i + 1))

ScaledPoints(points) ==
    LET p0 == points[1]
        g0 == GcdOfSeq([i \in 1 .. 2 * Len(points) |->
                           IF i <= Len(points) THEN points[i].x - p0.x
                           ELSE points[i - Len(points)].y - p0.y], 1)
        g  == IF g0 = 0 THEN 1 ELSE g0
    IN  [i \in DOMAIN points |->
            [x |-> (points[i].x - p0.x) \div g, y |-> (points[i].y - p0.y) \div g]]

\* twice the signed area of the triangle a, b, c
Orient(a, b, c) == Cross(Vec(a, b), Vec(a, c))

\* d lies strictly inside the circumcircle of the triangle a, b, c
InCircumCircle(a, b, c, d) ==
    LET ad == Vec(d, a)
        bd == Vec(d, b)
        cd == Vec(d, c)
        det == Norm2(ad) * Cross(bd, cd) - Norm2(bd) * Cross(ad, cd)
               + Norm2(cd) * Cross(ad, bd)
    IN  det * Orient(a, b, c) > 0

DelaunayTriangles(points) ==
    LET sp == ScaledPoints(points)
        n  == Len(points)
    IN  { t \in (1 .. n) \X (1 .. n) \X (1 .. n) :
            /\ t[1] < t[2] /\ t[2] < t[3]
            /\ Orient(sp[t[1]], sp[t[2]], sp[t[3]]) # 0
            /\ \A l \in 1 .. n :
                   ~InCircumCircle(sp[t[1]], sp[t[2]], sp[t[3]], sp[l]) }

DelaunayEdgePairs(points) ==
    LET triangles == DelaunayTriangles(points)
    IN  { e \in (1 .. Len(points)) \X (1 .. Len(points)) :
            /\ e[1] < e[2]
            /\ \E t \in triangles : {e[1], e[2]} \subseteq {t[1], t[2], t[3]} }

\* the pairs of a set in lexicographic order
RECURSIVE PairsInOrder(_)
PairsInOrder(S) ==
    IF S = {} THEN <<>>
    ELSE LET m == CHOOSE e \in S :
                      \A f \in S : e[1] < f[1] \/ (e[1] = f[1] /\ e[2] <= f[2])
         IN  <<m>> \o PairsInOrder(S \ {m})

DelaunayEdges(points) ==
    LET ps == PairsInOrder(DelaunayEdgePairs(points))
    IN  [i \in DOMAIN ps |->
            Edge(points[ps[i][1]], points[ps[i][2]], KnownWeight)]

(***************************************************************************)
(* buildAirWires, lines 62-82: the candidate edges appended to mEdges.     *)
(* The result is a set of sequences because of the unspecified order of    *)
(* std::sort among points with equal x.                                    *)
(***************************************************************************)
CandidateEdges(points) ==
    IF Len(points) <= 1 THEN { <<>> }
    ELSE IF Len(points) = 2
         THEN { << Edge(At(points, 0), At(points, 1), KnownWeight) >> }
    ELSE IF ArePointsColinear(points)
         THEN { PathEdges(sp) : sp \in SortedByX(points) }
    ELSE { DelaunayEdges(points) }

\* mutant: the weighting loop started at index 0
WeightEveryEdge(edges, connectedEdges) ==
    [i \in DOMAIN edges |->
        [edges[i] EXCEPT !.weight = Dist2(edges[i].p1, edges[i].p2)]]

\* lines 85-87: the edges from index connectedEdges on get their squared
\* length as weight
WeightEdges(edges, connectedEdges) ==
    [i \in DOMAIN edges |->
        IF i > connectedEdges
        THEN [edges[i] EXCEPT !.weight = Dist2(edges[i].p1, edges[i].p2)]
        ELSE edges[i]]

(***************************************************************************)
(* kruskalMst (lines 123-217).                                             *)
(***************************************************************************)

\* lines 149-152: std::sort by descending weight.  The order of edges of
\* equal weight is unspecified; every ordering std::sort may return.
RECURSIVE SortedByWeightFrom(_, _)
SortedByWeightFrom(edges, S) ==
    IF S = {} THEN { <<>> }
    ELSE UNION { { <<edges[i]>> \o t : t \in SortedByWeightFrom(edges, S \ {i}) } :
                 i \in { j \in S : \A k \in S : edges[j].weight >= edges[k].weight } }

\* mutant: the comparator reversed, so that the heaviest edge is processed
\* first
RECURSIVE SortedAscendingFrom(_, _)
SortedAscendingFrom(edges, S) ==
    IF S = {} THEN { <<>> }
    ELSE UNION { { <<edges[i]>> \o t : t \in SortedAscendingFrom(edges, S \ {i}) } :
                 i \in { j \in S : \A k \in S : edges[j].weight <= edges[k].weight } }

SortedAscending(edges) == SortedAscendingFrom(edges, DOMAIN edges)

SortedByWeight(edges) == SortedByWeightFrom(edges, DOMAIN edges)

\* line 125: unsigned int mstExpectedSize = nodeNumber - 1
ExpectedSize(nodeNumber) == IF nodeNumber = 0 THEN UIntMax ELSE nodeNumber - 1

\* lines 124-146 and the sorted edge list: the state the loop starts in.
\* emitted is the list of edges copied into mst (mst keeps only their
\* coordinates).
KruskalInit(points, sortedEdges) ==
    [ edges           |-> sortedEdges,
      tags            |-> [i \in Ids(points) |-> i],
      cycles          |-> [i \in Ids(points) |-> <<i>>],
      mstSize         |-> 0,
      mstExpectedSize |-> ExpectedSize(Len(points)),
      ratsnestLines   |-> FALSE,
      mst             |-> <<>>,
      emitted         |-> <<>> ]

\* mutant: the loop runs until the edge list is empty
LoopUntilEmpty(s) == s.edges # <<>>

\* line 154: the loop condition
LoopCondition(s) == s.mstSize < s.mstExpectedSize /\ s.edges # <<>>

\* mutant: the tag comparison of line 164 left out
JoinsAlways(s, dt) == TRUE

\* line 164: the edge joins two different forests
JoinsForests(s, dt) == s.tags[dt.p1.id] # s.tags[dt.p2.id]

\* mutant: every merge counts as a ratsnest line, known edges included
RatsnestAlways(s, dt) == TRUE

\* mutant: weight > 0 in place of weight >= 0
RatsnestStrict(s, dt) == s.ratsnestLines \/ dt.weight > 0

\* line 170: ratsnestLines after this edge
RatsnestLines(s, dt) == s.ratsnestLines \/ dt.weight >= 0

\* mutant: the nodes of cycles[srcTag] get trgTag
RetagReversed(s, srcTag, trgTag) ==
    [i \in DOMAIN s.tags |->
        IF \E k \in DOMAIN s.cycles[srcTag] : s.cycles[srcTag][k] = i
        THEN trgTag ELSE s.tags[i]]

\* mutant: only the first node of cycles[trgTag] gets srcTag
RetagFirstOnly(s, srcTag, trgTag) ==
    [i \in DOMAIN s.tags |->
        IF s.cycles[trgTag] # <<>> /\ s.cycles[trgTag][1] = i
        THEN srcTag ELSE s.tags[i]]

\* lines 174-177 and 196-200: every node of cycles[trgTag] gets srcTag
Retag(s, srcTag, trgTag) ==
    [i \in DOMAIN s.tags |->
        IF \E k \in DOMAIN s.cycles[trgTag] : s.cycles[trgTag][k] = i
        THEN srcTag ELSE s.tags[i]]

\* mutant: the splice of line 209 left out
SpliceForgotten(s, srcTag, trgTag) == s.cycles

\* line 209: cycles[srcTag].splice(cycles[srcTag].end(), cycles[trgTag])
Splice(s, srcTag, trgTag) ==
    [s.cycles EXCEPT ![srcTag] = s.cycles[srcTag] \o s.cycles[trgTag],
                     ![trgTag] = <<>>]

\* line 190: the air wire appended to mst
AirWire(dt) == << [x |-> dt.p1.x, y |-> dt.p1.y], [x |-> dt.p2.x, y |-> dt.p2.y] >>

\* lines 155-213: one iteration of the loop
KruskalStep(s) ==
    LET dt     == s.edges[Len(s.edges)]
        srcTag == s.tags[dt.p1.id]
        trgTag == s.tags[dt.p2.id]
        rest   == SubSeq(s.edges, 1, Len(s.edges) - 1)
    IN  IF ~JoinsForests(s, dt) THEN [s EXCEPT !.edges = rest]
        ELSE IF RatsnestLines(s, dt)
        THEN [s EXCEPT !.edges = rest,
                       !.ratsnestLines = TRUE,
                       !.tags = Retag(s, srcTag, trgTag),
                       !.cycles = Splice(s, srcTag, trgTag),
                       !.mst = Append(s.mst, AirWire(dt)),
                       !.emitted = Append(s.emitted, dt),
                       !.mstSize = s.mstSize + 1]
        ELSE [s EXCEPT !.edges = rest,
                       !.tags = Retag(s, srcTag, trgTag),
                       !.cycles = Splice(s, srcTag, trgTag),
                       !.mstExpectedSize = s.mstExpectedSize - 1]

\* lines 154-214: the loop, run to its end
RECURSIVE KruskalLoop(_)
KruskalLoop(s) == IF LoopCondition(s) THEN KruskalLoop(KruskalStep(s)) ELSE s

\* lines 154-214: the states at the head of the loop, one per evaluation of
\* the loop condition, from s on
RECURSIVE KruskalRun(_)
KruskalRun(s) ==
    IF LoopCondition(s) THEN <<s>> \o KruskalRun(KruskalStep(s)) ELSE <<s>>

\* the runs kruskalMst can make on the given points and edges
KruskalRuns(points, edges) ==
    { KruskalRun(KruskalInit(points, se)) : se \in SortedByWeight(edges) }

\* the states kruskalMst can end in for the given points and edges
KruskalMst(points, edges) ==
    { KruskalLoop(KruskalInit(points, se)) : se \in SortedByWeight(edges) }

(***************************************************************************)
(* buildAirWires as a function of the builder's state: the possible        *)
(* outcomes of one call.  An outcome records the points, the number of     *)
(* edges present on entry, the edge list as weighted (before the sort),    *)
(* the returned air wires, the edges they were copied from and the edges   *)
(* left in mEdges when kruskalMst returns.                                 *)
(***************************************************************************)
\* lines 84-90 for one list of candidate edges
OutcomesWith(points, edges, cand) ==
    LET all == WeightEdges(edges \o cand, Len(edges))
    IN  { [ points         |-> points,
            connectedEdges |-> Len(edges),
            edges          |-> all,
            airWires       |-> f.mst,
            emitted        |-> f.emitted,
            remaining      |-> f.edges ] : f \in KruskalMst(points, all) }

\* lines 84-90 for each of the candidate lists in cands
OutcomesFrom(points, edges, cands) ==
    UNION { OutcomesWith(points, edges, cand) : cand \in cands }

BuildOutcomes(points, edges) == OutcomesFrom(points, edges, CandidateEdges(points))

\* the air-wire lists buildAirWires can return, the candidate lists given
AirWireListsFrom(points, edges, cands) ==
    { o.airWires : o \in OutcomesFrom(points, edges, cands) }

\* the air-wire lists buildAirWires can return
AirWireLists(points, edges) ==
    AirWireListsFrom(points, edges, CandidateEdges(points))

(***************************************************************************)
(* The state machine.                                                      *)
(***************************************************************************)
NoCall == [ points |-> <<>>, connectedEdges |-> 0, edges |-> <<>>,
            airWires |-> <<>>, emitted |-> <<>>, remaining |-> <<>> ]

\* a builder as constructed
InitBuilder ==
    /\ mPoints = <<>>
    /\ mEdges = <<>>
    /\ calls = 0
    /\ lastCall = NoCall

\* the units of LengthUnit::getAllUnits the model keeps
Units == { "millimeters", "mils" }

\* a text without a unit suffix
NoSuffix == "none"

\* a text that is no numeric expression
NoText == [suffix |-> NoSuffix, outcome |-> "invalid", length |-> 0]

\* no operation was called on the edit
NoOperation ==
    [op |-> "none", length |-> 0, text |-> NoText, value |-> 0, unit |-> "millimeters"]

\* no length edit exists
NoEdit ==
    /\ mMinimum = 0
    /\ mMaximum = 0
    /\ mValue = 0
    /\ mSteps = <<>>
    /\ mSingleStepUp = 0
    /\ mSingleStepDown = 0
    /\ mUnit = "millimeters"
    /\ lastEdit = NoOperation

\* a schematic that stands for no schematic
NoSchematic == [id |-> 0, uuid |-> "", name |-> "", empty |-> TRUE]

\* no operation was called on the project
NoProjectOperation ==
    [ op |-> "none", result |-> FALSE, temporary |-> {}, original |-> {},
      errors |-> 0, originalErrors |-> 0, modified |-> FALSE, restored |-> FALSE, clean |-> TRUE,
      schematic |-> NoSchematic, deleteSchematic |-> FALSE, threw |-> FALSE,
      schematics |-> <<>>, removed |-> <<>> ]

\* no project is open
NoProject ==
    /\ mIsReadOnly = FALSE
    /\ mIsRestored = FALSE
    /\ mProjectIsModified = FALSE
    /\ mUndoStack = [clean |-> TRUE, commandActive |-> FALSE]
    /\ mSchematics = <<>>
    /\ mRemovedSchematics = <<>>
    /\ deleted = {}
    /\ lastProject = NoProjectOperation

Init == InitBuilder /\ NoEdit /\ NoProject

\* the points that lie at the place of a point registered before them
Coincident(points) ==
    { i \in DOMAIN points :
        \E j \in 1 .. (i - 1) : points[j].x = points[i].x /\ points[j].y = points[i].y }

\* addPoint (lines 48-52)
AddPoint(U) ==
    /\ calls = 0
    /\ Len(mPoints) + Len(mEdges) < MaxSize
    /\ \E c \in U :
          /\ mPoints' = Append(mPoints, [x |-> c[1], y |-> c[2], id |-> Len(mPoints)])
          /\ Cardinality(Coincident(mPoints')) <= MaxCoincident
    /\ UNCHANGED <<mEdges, calls, lastCall, editVars, projectVars>>

\* addEdge (lines 54-56), called with ids that addPoint returned
AddEdge ==
    /\ calls = 0
    /\ Len(mPoints) + Len(mEdges) < MaxSize
    /\ \E p1 \in Ids(mPoints), p2 \in Ids(mPoints) :
          mEdges' = Append(mEdges, Edge(At(mPoints, p1), At(mPoints, p2), KnownWeight))
    /\ UNCHANGED <<mPoints, calls, lastCall, editVars, projectVars>>

\* buildAirWires (lines 58-91), called once after the points and edges are
\* registered; kruskalMst pops the edges it has processed from mEdges
BuildAirWires ==
    /\ calls = 0
    /\ \E o \in BuildOutcomes(mPoints, mEdges) :
          /\ mEdges' = o.remaining
          /\ lastCall' = o
    /\ calls' = calls + 1
    /\ UNCHANGED <<mPoints, editVars, projectVars>>

Next == AddPoint(Universe) \/ AddEdge \/ BuildAirWires

Spec == Init /\ [][Next]_vars

NextLine == AddPoint(LineUniverse) \/ AddEdge \/ BuildAirWires

SpecLine == Init /\ [][NextLine]_vars

NextNear == AddPoint(NearUniverse) \/ AddEdge \/ BuildAirWires

SpecNear == Init /\ [][NextNear]_vars

NextHorizontal == AddPoint(HorizontalUniverse) \/ AddEdge \/ BuildAirWires

SpecHorizontal == Init /\ [][NextHorizontal]_vars

\* addPoint on a builder that gets three points at most, which keeps the
\* triangulation of points 1 nm apart inside the integer range of TLC
AddPointThreshold == Len(mPoints) < 3 /\ AddPoint(ThresholdUniverse)

NextThreshold == AddPointThreshold \/ AddEdge \/ BuildAirWires

SpecThreshold == Init /\ [][NextThreshold]_vars

NextTies == AddPoint(TieUniverse) \/ AddEdge \/ BuildAirWires

SpecTies == Init /\ [][NextTies]_vars

\* buildAirWires called again on the builder it has been called on, with no
\* point or edge registered in between: the same code, entered with the
\* mEdges the earlier call left behind
BuildAirWiresAgain ==
    /\ calls >= 1
    /\ calls < MaxCalls
    /\ \E o \in BuildOutcomes(mPoints, mEdges) :
          /\ mEdges' = o.remaining
          /\ lastCall' = o
    /\ calls' = calls + 1
    /\ UNCHANGED <<mPoints, editVars, projectVars>>

NextAgain == AddPoint(AgainUniverse) \/ AddEdge \/ BuildAirWires \/ BuildAirWiresAgain

SpecAgain == Init /\ [][NextAgain]_vars

\* what mPoints[p] yields at line 55: the registered point for an id that
\* addPoint returned; for any other id the read is outside the vector
\* (operator[] does not check), undefined behaviour, and yields whatever
\* the storage holds
Indeterminate ==
    { [x |-> c[1], y |-> c[2], id |-> i] : c \in { <<0, 0>>, <<2000, 0>> }, i \in (-1) .. 0 }

ReadPoint(points, p) ==
    IF p \in Ids(points) THEN { At(points, p) } ELSE Indeterminate

\* addEdge (lines 54-56) called with an id that addPoint has not returned:
\* no check precedes the read and the emplace_back, so the edge built from
\* the values read is stored.  (The build may also end the program at the
\* read, which leaves every variable as it is.)
AddEdgeUnregistered ==
    /\ calls = 0
    /\ Len(mPoints) + Len(mEdges) < MaxSize
    /\ \E p1 \in (-1) .. Len(mPoints), p2 \in (-1) .. Len(mPoints) :
          /\ p1 \notin Ids(mPoints) \/ p2 \notin Ids(mPoints)
          /\ \E v1 \in ReadPoint(mPoints, p1), v2 \in ReadPoint(mPoints, p2) :
                mEdges' = Append(mEdges, Edge(v1, v2, KnownWeight))
    /\ UNCHANGED <<mPoints, calls, lastCall, editVars, projectVars>>

\* the registration phase of a builder whose caller does not keep to the
\* ids addPoint returned
NextUnregistered == AddPoint(AgainUniverse) \/ AddEdge \/ AddEdgeUnregistered

SpecUnregistered == Init /\ [][NextUnregistered]_vars

\* addPoint on a builder that is given two points
AddPointFar ==
    /\ Len(mPoints) < 2
    /\ AddPoint(FarUniverse)

\* buildAirWires on two points and no known edge, the weight kept as the
\* double it is: the branch of lines 65-67 adds the edge of the two points,
\* line 86 weights it and kruskalMst, finding two tags and a weight >= 0,
\* emits it and pops it
BuildAirWiresFar ==
    /\ calls = 0
    /\ Len(mPoints) = 2
    /\ mEdges = <<>>
    /\ LET dt == Edge(At(mPoints, 0), At(mPoints, 1),
                      Dist2Real(At(mPoints, 0), At(mPoints, 1)))
       IN  lastCall' = [ points         |-> mPoints,
                         connectedEdges |-> 0,
                         edges          |-> << dt >>,
                         airWires       |-> << AirWire(dt) >>,
                         emitted        |-> << dt >>,
                         remaining      |-> <<>> ]
    /\ calls' = calls + 1
    /\ UNCHANGED <<mPoints, mEdges, editVars, projectVars>>

NextFar == AddPointFar \/ BuildAirWiresFar

SpecFar == Init /\ [][NextFar]_vars

(***************************************************************************)
(* LengthEditBase (widgets/lengtheditbase.cpp): the spin box for lengths.  *)
(* Lengths are nanometres.  The text shown in the line edit does not enter *)
(* the stepping and is not modelled.                                       *)
(***************************************************************************)
\* the step list of configureForCoordinate (lines 108-115)
CoordinateSteps == << 10000, 25400, 100000, 254000, 1000000, 2540000 >>

\* the step list of the example of setSteps: 0.1 mm and 1.0 mm
ExampleSteps == << 100000, 1000000 >>

\* the ranges and values the edit is constructed with, the values given to
\* setValueImpl and entered as text, and the step lists given to setSteps
EditMinimums == { -1000000, 0 }
EditMaximums == { 2500000 }
EditValues == { -1000000, 0, 100000, 1000000, 2000000, 3000000 }
StepLists == { ExampleSteps, CoordinateSteps }

\* lines 283-290: the loop over mSteps, from the step at index i on
RECURSIVE StepLoop(_, _, _, _, _)
StepLoop(value, steps, i, up, down) ==
    IF i > Len(steps) THEN [up |-> up, down |-> down]
    ELSE IF value % steps[i] = 0
         THEN StepLoop(value, steps, i + 1, steps[i],
                       IF Abs(value) > steps[i] \/ down = 0 THEN steps[i] ELSE down)
         ELSE StepLoop(value, steps, i + 1, up, down)

\* updateSingleStep (lines 276-303): the new mSingleStepUp and
\* mSingleStepDown, up and down being the present ones
UpdateSingleStep(value, minimum, steps, up, down) ==
    IF value = 0 \/ value = minimum THEN [up |-> up, down |-> down]
    ELSE LET l  == StepLoop(value, steps, 1, 0, 0)
             u  == IF value < 0 THEN l.down ELSE l.up
             d  == IF value < 0 THEN l.up ELSE l.down
         IN  [up |-> u, down |-> IF d > 0 /\ value < minimum + d THEN 0 ELSE d]

\* qBound(min, value, max)
Bound(minimum, value, maximum) ==
    IF value < minimum THEN minimum ELSE IF value > maximum THEN maximum ELSE value

\* the texts entered in the line edit, by what the code makes of them: the
\* unit suffix extractUnitFromExpression finds (lines 309-320), and the
\* outcome of MathParser::parse and LengthUnit::convertFromUnit (lines
\* 252-254): no valid number, an exception, or a length in nanometres
Texts ==
    { t \in [ suffix  : Units \cup { NoSuffix },
              outcome : { "invalid", "throws", "length" },
              length  : EditValues ] :
        t.outcome # "length" => t.length = 0 }

\* the record of an operation: its name, its length or text argument, and
\* the value and unit the edit had when it was called
Operation(op, length, text) ==
    [op |-> op, length |-> length, text |-> text, value |-> mValue, unit |-> mUnit]

\* the constructor (lines 37-77): the fields are initialised with no step,
\* then configureForCoordinate sets the step list through setSteps and the
\* unit through setUnit
InitEdit ==
    /\ InitBuilder
    /\ mMinimum \in EditMinimums
    /\ mMaximum \in EditMaximums
    /\ mValue \in { v \in EditValues : mMinimum <= v /\ v <= mMaximum }
    /\ mSteps = CoordinateSteps
    /\ mSingleStepUp = UpdateSingleStep(mValue, mMinimum, mSteps, 0, 0).up
    /\ mSingleStepDown = UpdateSingleStep(mValue, mMinimum, mSteps, 0, 0).down
    /\ mUnit = "millimeters"
    /\ lastEdit = NoOperation
    /\ NoProject

\* setUnit (lines 86-91)
SetUnit ==
    /\ \E unit \in Units :
          /\ mUnit' = (IF unit # mUnit THEN unit ELSE mUnit)
          /\ lastEdit' = Operation("setUnit", 0, NoText)
    /\ UNCHANGED <<mMinimum, mMaximum, mValue, mSteps, mSingleStepUp,
                   mSingleStepDown, builderVars, projectVars>>

\* setSteps (lines 97-101)
SetSteps ==
    /\ \E steps \in StepLists :
          LET s == UpdateSingleStep(mValue, mMinimum, steps, mSingleStepUp, mSingleStepDown)
          IN  /\ mSteps' = steps
              /\ mSingleStepUp' = s.up
              /\ mSingleStepDown' = s.down
    /\ lastEdit' = Operation("setSteps", 0, NoText)
    /\ UNCHANGED <<mMinimum, mMaximum, mValue, mUnit, builderVars, projectVars>>

\* setValueImpl (lines 233-247) as a relation between the fields
SetValueTo(value) ==
    LET v == Bound(mMinimum, value, mMaximum)
        s == UpdateSingleStep(v, mMinimum, mSteps, mSingleStepUp, mSingleStepDown)
    IN  IF v # mValue
        THEN /\ mValue' = v
             /\ mSingleStepUp' = s.up
             /\ mSingleStepDown' = s.down
        ELSE UNCHANGED <<mValue, mSingleStepUp, mSingleStepDown>>

\* setValueImpl called by the owner of the edit
SetValueImpl ==
    /\ \E value \in EditValues :
          /\ SetValueTo(value)
          /\ lastEdit' = Operation("setValueImpl", value, NoText)
    /\ UNCHANGED <<mMinimum, mMaximum, mSteps, mUnit, builderVars, projectVars>>

\* stepBy (lines 225-231), called for one step up or down
StepBy ==
    /\ \E steps \in { -1, 1 } :
          /\ IF mSingleStepUp > 0 /\ steps > 0
             THEN SetValueTo(mValue + mSingleStepUp * steps)
             ELSE IF mSingleStepDown > 0 /\ steps < 0
             THEN SetValueTo(mValue + mSingleStepDown * steps)
             ELSE UNCHANGED <<mValue, mSingleStepUp, mSingleStepDown>>
          /\ lastEdit' = Operation("stepBy", steps, NoText)
    /\ UNCHANGED <<mMinimum, mMaximum, mSteps, mUnit, builderVars, projectVars>>

\* mutant: the range check of line 256 left out
UpdateValueUnchecked ==
    /\ \E text \in Texts :
          /\ IF text.outcome # "length"
             THEN UNCHANGED <<mValue, mUnit, mSingleStepUp, mSingleStepDown>>
             ELSE LET value == text.length
                      unit  == IF text.suffix = NoSuffix THEN mUnit ELSE text.suffix
                      s     == UpdateSingleStep(value, mMinimum, mSteps,
                                                mSingleStepUp, mSingleStepDown)
                  IN  /\ mValue' = value
                      /\ mUnit' = unit
                      /\ mSingleStepUp' = s.up
                      /\ mSingleStepDown' = s.down
          /\ lastEdit' = Operation("updateValueFromText", 0, text)
    /\ UNCHANGED <<mMinimum, mMaximum, mSteps, builderVars, projectVars>>

\* updateValueFromText (lines 249-274): the unit is the one of the suffix,
\* or mUnit for a text without suffix; a text that is no valid number or
\* whose conversion throws changes nothing, and a length is accepted only
\* inside the range
UpdateValueFromText ==
    /\ \E text \in Texts :
          /\ IF text.outcome # "length"
             THEN UNCHANGED <<mValue, mUnit, mSingleStepUp, mSingleStepDown>>
             ELSE LET value == text.length
                      unit  == IF text.suffix = NoSuffix THEN mUnit ELSE text.suffix
                      s     == UpdateSingleStep(value, mMinimum, mSteps,
                                                mSingleStepUp, mSingleStepDown)
                  IN  IF value >= mMinimum /\ value <= mMaximum
                      THEN /\ mValue' = value
                           /\ mUnit' = unit
                           /\ mSingleStepUp' = s.up
                           /\ mSingleStepDown' = s.down
                      ELSE UNCHANGED <<mValue, mUnit, mSingleStepUp, mSingleStepDown>>
          /\ lastEdit' = Operation("updateValueFromText", 0, text)
    /\ UNCHANGED <<mMinimum, mMaximum, mSteps, builderVars, projectVars>>

\* stepEnabled (lines 214-223)
StepUpEnabled == mSingleStepUp > 0 /\ mValue < mMaximum
StepDownEnabled == mSingleStepDown > 0 /\ mValue > mMinimum

NextEdit == SetUnit \/ SetSteps \/ SetValueImpl \/ StepBy \/ UpdateValueFromText

SpecEdit == InitEdit /\ [][NextEdit]_vars

(***************************************************************************)
(* Project (eda4u/project/project.cpp): saving, and the list of            *)
(* schematics.  A schematic is a record [id, uuid, name, empty]: id stands *)
(* for the address of the Schematic object, empty for what isEmpty()       *)
(* returns.  mUndoStack holds what isClean() and isCommandActive() return. *)
(***************************************************************************)
\* the most files that fail in one call of save
MaxFailures == 1

\* the schematic objects: the second has the UUID of the first, the third
\* the name of the first, the third and fourth are not empty
Schematics ==
    { [id |-> 1, uuid |-> "u1", name |-> "a", empty |-> TRUE],
      [id |-> 2, uuid |-> "u1", name |-> "b", empty |-> TRUE],
      [id |-> 3, uuid |-> "u3", name |-> "a", empty |-> FALSE],
      [id |-> 4, uuid |-> "u4", name |-> "d", empty |-> FALSE] }

\* the schematics a project is loaded with (lines 213-226)
LoadedSchematics ==
    << [id |-> 1, uuid |-> "u1", name |-> "a", empty |-> TRUE],
       [id |-> 4, uuid |-> "u4", name |-> "d", empty |-> FALSE] >>

\* the elements of a list
Range(list) == { list[i] : i \in DOMAIN list }

\* what save writes (lines 806-867): the project file, the description,
\* the circuit, every schematic of both lists, the boards of both lists,
\* the settings and the ERC messages
SaveTargets ==
    { [kind |-> k, id |-> 0] :
         k \in { "project", "description", "circuit", "boards", "removedBoards",
                 "settings", "ercMessages" } }
    \cup { [kind |-> "schematic", id |-> sch.id] : sch \in Range(mSchematics) }
    \cup { [kind |-> "removedSchematic", id |-> sch.id] :
             sch \in Range(mRemovedSchematics) }

\* the files that can fail in one call of save
Failures == { f \in SUBSET SaveTargets : Cardinality(f) <= MaxFailures }

\* mutant: the restored flag reset by every save
SaveResetsRestored(toOriginal, failed, stray) ==
    IF mIsReadOnly \/ mUndoStack.commandActive
    THEN [success |-> FALSE, errors |-> 1, written |-> {}, restored |-> mIsRestored]
    ELSE [ success  |-> failed = {},
           errors   |-> Cardinality(failed) + (IF stray THEN 1 ELSE 0),
           written  |-> SaveTargets \ failed,
           restored |-> FALSE ]

\* save (lines 790-875): failed are the files whose saving fails, stray
\* tells whether a part that reports success has appended an error
\* message all the same.  The result holds the return value, the number
\* of messages appended to errors, the files written and the new
\* mIsRestored.
Save(toOriginal, failed, stray) ==
    IF mIsReadOnly \/ mUndoStack.commandActive
    THEN [success |-> FALSE, errors |-> 1, written |-> {}, restored |-> mIsRestored]
    ELSE [ success  |-> failed = {},
           errors   |-> Cardinality(failed) + (IF stray THEN 1 ELSE 0),
           written  |-> SaveTargets \ failed,
           restored |-> IF mIsRestored /\ failed = {} /\ toOriginal
                        THEN FALSE ELSE mIsRestored ]

\* the record of an operation on the project: its name and the flags and
\* lists the project had when it was called
ProjectOperation(op) ==
    [ NoProjectOperation EXCEPT
        !.op = op,
        !.modified = mProjectIsModified,
        !.restored = mIsRestored,
        !.clean = mUndoStack.clean,
        !.schematics = mSchematics,
        !.removed = mRemovedSchematics ]

\* the constructor (lines 52-262): a project opened read-only (line 113),
\* restored from a backup (line 131) or opened normally, with its
\* schematics loaded
InitProject ==
    /\ InitBuilder
    /\ NoEdit
    /\ mIsReadOnly \in BOOLEAN
    /\ mIsRestored \in BOOLEAN
    /\ ~(mIsReadOnly /\ mIsRestored)
    /\ mProjectIsModified = FALSE
    /\ mUndoStack = [clean |-> TRUE, commandActive |-> FALSE]
    /\ mSchematics = LoadedSchematics
    /\ mRemovedSchematics = <<>>
    /\ deleted = {}
    /\ lastProject = NoProjectOperation

\* setModifiedFlag of the project
SetModifiedFlag ==
    /\ mProjectIsModified' = TRUE
    /\ lastProject' = ProjectOperation("setModifiedFlag")
    /\ UNCHANGED <<mIsReadOnly, mIsRestored, mUndoStack, mSchematics,
                   mRemovedSchematics, deleted, builderVars, editVars>>

\* a command is begun on the undo stack
BeginCommand ==
    /\ ~mUndoStack.commandActive
    /\ mUndoStack' = [mUndoStack EXCEPT !.commandActive = TRUE]
    /\ lastProject' = ProjectOperation("beginCommand")
    /\ UNCHANGED <<mIsReadOnly, mIsRestored, mProjectIsModified, mSchematics,
                   mRemovedSchematics, deleted, builderVars, editVars>>

\* the active command is ended: the undo stack is no longer clean
EndCommand ==
    /\ mUndoStack.commandActive
    /\ mUndoStack' = [clean |-> FALSE, commandActive |-> FALSE]
    /\ lastProject' = ProjectOperation("endCommand")
    /\ UNCHANGED <<mIsReadOnly, mIsRestored, mProjectIsModified, mSchematics,
                   mRemovedSchematics, deleted, builderVars, editVars>>

\* saveProject (lines 644-684)
SaveProject ==
    /\ \E failed1 \in Failures, stray1 \in BOOLEAN :
          LET step1 == Save(FALSE, failed1, stray1)
          IN  IF ~step1.success \/ step1.errors > 0
              THEN /\ mIsRestored' = step1.restored
                   /\ lastProject' =
                         [ ProjectOperation("saveProject") EXCEPT
                             !.result = FALSE,
                             !.temporary = step1.written,
                             !.errors = step1.errors ]
                   /\ UNCHANGED <<mProjectIsModified, mUndoStack>>
              ELSE \E failed2 \in Failures, stray2 \in BOOLEAN :
                      LET step2 == Save(TRUE, failed2, stray2)
                          call  == [ ProjectOperation("saveProject") EXCEPT
                                       !.result = step2.success,
                                       !.temporary = step1.written,
                                       !.original = step2.written,
                                       !.errors = step1.errors,
                                       !.originalErrors = step2.errors ]
                      IN  IF ~step2.success
                          THEN /\ mIsRestored' = step2.restored
                               /\ lastProject' = call
                               /\ UNCHANGED <<mProjectIsModified, mUndoStack>>
                          ELSE /\ mIsRestored' = step2.restored
                               /\ mUndoStack' = [mUndoStack EXCEPT !.clean = TRUE]
                               /\ mProjectIsModified' = FALSE
                               /\ lastProject' = call
    /\ UNCHANGED <<mIsReadOnly, mSchematics, mRemovedSchematics, deleted,
                   builderVars, editVars>>

\* autosaveProject (lines 686-710)
AutosaveProject ==
    /\ IF ~mIsRestored /\ mUndoStack.clean /\ ~mProjectIsModified
       THEN /\ lastProject' = ProjectOperation("autosaveProject")
            /\ UNCHANGED mIsRestored
       ELSE IF mUndoStack.commandActive
       THEN /\ lastProject' = ProjectOperation("autosaveProject")
            /\ UNCHANGED mIsRestored
       ELSE \E failed \in Failures, stray \in BOOLEAN :
               LET step == Save(FALSE, failed, stray)
               IN  /\ mIsRestored' = step.restored
                   /\ lastProject' =
                         [ ProjectOperation("autosaveProject") EXCEPT
                             !.result = step.success,
                             !.temporary = step.written,
                             !.errors = step.errors ]
    /\ UNCHANGED <<mIsReadOnly, mProjectIsModified, mUndoStack, mSchematics,
                   mRemovedSchematics, deleted, builderVars, editVars>>

\* getSchematicByUuid (lines 387-395): the first schematic of the list with
\* the UUID, or none
GetSchematicByUuid(uuid) ==
    LET found == { i \in DOMAIN mSchematics : mSchematics[i].uuid = uuid }
    IN  IF found = {} THEN NoSchematic
        ELSE mSchematics[CHOOSE i \in found : \A j \in found : i <= j]

\* mutant: no schematic is ever found by name
GetSchematicByNameNever(name) == NoSchematic

\* getSchematicByName (lines 397-405): the first schematic of the list with
\* the name, or none
GetSchematicByName(name) ==
    LET found == { i \in DOMAIN mSchematics : mSchematics[i].name = name }
    IN  IF found = {} THEN NoSchematic
        ELSE mSchematics[CHOOSE i \in found : \A j \in found : i <= j]

\* QList::insert(index, item), index counted from 0
InsertAt(list, index, item) ==
    SubSeq(list, 1, index) \o <<item>> \o SubSeq(list, index + 1, Len(list))

\* QList::removeAt(index), index counted from 0
RemoveAt(list, index) ==
    SubSeq(list, 1, index) \o SubSeq(list, index + 2, Len(list))

\* QList::indexOf(item), counted from 0; -1 if the item is not in the list
IndexOf(list, item) ==
    LET found == { i \in DOMAIN list : list[i] = item }
    IN  IF found = {} THEN -1
        ELSE (CHOOSE i \in found : \A j \in found : i <= j) - 1

\* QList::removeOne(item): the list without the first occurrence of item
RemoveOne(list, item) ==
    IF IndexOf(list, item) < 0 THEN list ELSE RemoveAt(list, IndexOf(list, item))

\* addSchematic (lines 414-443); throws tells whether addToProject throws
AddSchematic ==
    /\ \E schematic \in Schematics \ deleted,
          newIndex \in (-1) .. (Len(mSchematics) + 1),
          throws \in BOOLEAN :
          LET index == IF newIndex < 0 \/ newIndex > Len(mSchematics)
                       THEN Len(mSchematics) ELSE newIndex
          IN  /\ IF \/ GetSchematicByUuid(schematic.uuid) # NoSchematic
                    \/ GetSchematicByName(schematic.name) # NoSchematic
                    \/ throws
                 THEN UNCHANGED <<mSchematics, mRemovedSchematics>>
                 ELSE /\ mSchematics' = InsertAt(mSchematics, index, schematic)
                      /\ mRemovedSchematics' = RemoveOne(mRemovedSchematics, schematic)
              /\ lastProject' = [ ProjectOperation("addSchematic") EXCEPT
                                    !.schematic = schematic,
                                    !.threw = throws ]
    /\ UNCHANGED <<mIsReadOnly, mIsRestored, mProjectIsModified, mUndoStack,
                   deleted, builderVars, editVars>>

\* removeSchematic (lines 445-469), called as its assertions demand: for a
\* schematic of the list that is not in the list of removed schematics;
\* throws tells whether removeFromProject throws
RemoveSchematic ==
    /\ \E schematic \in Range(mSchematics) \ Range(mRemovedSchematics),
          deleteSchematic \in BOOLEAN,
          throws \in BOOLEAN :
          LET index == IndexOf(mSchematics, schematic)
          IN  /\ IF (~deleteSchematic /\ ~schematic.empty) \/ throws
                 THEN UNCHANGED <<mSchematics, mRemovedSchematics, deleted>>
                 ELSE /\ mSchematics' = RemoveAt(mSchematics, index)
                      /\ IF deleteSchematic
                         THEN /\ deleted' = deleted \cup { schematic }
                              /\ UNCHANGED mRemovedSchematics
                         ELSE /\ mRemovedSchematics' = Append(mRemovedSchematics, schematic)
                              /\ UNCHANGED deleted
              /\ lastProject' = [ ProjectOperation("removeSchematic") EXCEPT
                                    !.schematic = schematic,
                                    !.deleteSchematic = deleteSchematic,
                                    !.threw = throws ]
    /\ UNCHANGED <<mIsReadOnly, mIsRestored, mProjectIsModified, mUndoStack,
                   builderVars, editVars>>

NextSchematics == AddSchematic \/ RemoveSchematic

SpecSchematics == InitProject /\ [][NextSchematics]_vars

NextSave ==
    SetModifiedFlag \/ BeginCommand \/ EndCommand \/ SaveProject \/ AutosaveProject

SpecSave == InitProject /\ [][NextSave]_vars

(***************************************************************************)
(* Notions the properties are stated in.  lastCall is the outcome of the   *)
(* call of buildAirWires, once Built holds.                                *)
(***************************************************************************)
Built == calls > 0

NumPoints == Len(lastCall.points)

\* the unordered end-point pair of an edge, by point ids
IdPair(e) == {e.p1.id, e.p2.id}

\* known edges carry the sentinel weight, candidate edges a weight >= 0
KnownPairs(edges) == { IdPair(edges[i]) : i \in { j \in DOMAIN edges : edges[j].weight < 0 } }

CandidateIndices(edges) == { i \in DOMAIN edges : edges[i].weight >= 0 }

PairsAt(edges, I) == { IdPair(edges[i]) : i \in I }

EmittedPairs == { IdPair(lastCall.emitted[i]) : i \in DOMAIN lastCall.emitted }

NoKnownEdges == KnownPairs(lastCall.edges) = {}

\* the ids reachable from the ids in S over the pairs
RECURSIVE ReachableFrom(_, _)
ReachableFrom(S, pairs) ==
    LET T == S \cup { j \in UNION pairs : \E i \in S : {i, j} \in pairs }
    IN  IF T = S THEN S ELSE ReachableFrom(T, pairs)

\* the partition of the ids into connected components
Components(ids, pairs) == { ReachableFrom({i}, pairs) : i \in ids }

\* known and candidate edges together connect all points
CandidatesConnect ==
    Cardinality(Components(Ids(lastCall.points),
                           PairsAt(lastCall.edges, DOMAIN lastCall.edges))) = 1

\* the number of components of the points under the known edges alone
KnownComponents ==
    Cardinality(Components(Ids(lastCall.points), KnownPairs(lastCall.edges)))

\* the component of every point, named by the least id in it, after the
\* edges with indices in I are added to the components given by lab
RECURSIVE Merged(_, _, _)
Merged(edges, I, lab) ==
    IF I = {} THEN lab
    ELSE LET i  == CHOOSE j \in I : TRUE
             a  == lab[edges[i].p1.id]
             b  == lab[edges[i].p2.id]
             lo == IF a <= b THEN a ELSE b
         IN  Merged(edges, I \ {i},
                    [k \in DOMAIN lab |-> IF lab[k] = a \/ lab[k] = b THEN lo ELSE lab[k]])

RECURSIVE SumWeights(_, _)
SumWeights(edges, I) ==
    IF I = {} THEN 0
    ELSE LET i == CHOOSE j \in I : TRUE
         IN  edges[i].weight + SumWeights(edges, I \ {i})

\* the total weight of the edges the air wires were copied from
SumEmitted == SumWeights(lastCall.emitted, DOMAIN lastCall.emitted)

SamePlace(p, q) == p.x = q.x /\ p.y = q.y

\* all points lie on one straight line
OnOneLine(points) ==
    \A i, j, k \in DOMAIN points : Orient(points[i], points[j], points[k]) = 0

Distinct(points) ==
    \A i, j \in DOMAIN points : i # j => ~SamePlace(points[i], points[j])

\* for distinct points on one line: the pairs of ids with no point between
AdjacentPairs(points) ==
    { pr \in SUBSET Ids(points) :
        /\ Cardinality(pr) = 2
        /\ \A k \in Ids(points) \ pr :
               \E a, b \in pr :
                   a # b /\ Dot(Vec(At(points, k), At(points, a)),
                                Vec(At(points, k), At(points, b))) > 0 }

\* the known edges addEdge(a, a) and the repetitions of known edges
SelfEdges(points) == { Edge(points[i], points[i], KnownWeight) : i \in DOMAIN points }

RepeatedEdges(edges) == { edges[i] : i \in DOMAIN edges }

(***************************************************************************)
(* C1: for at least one registered point, buildAirWires returns exactly    *)
(* C - 1 air wires, C being the number of connected components of the      *)
(* points under the known edges alone, provided known and candidate edges  *)
(* together connect all points.                                            *)
(***************************************************************************)
C1_AirWireCount ==
    (Built /\ NumPoints >= 1 /\ CandidatesConnect)
        => Len(lastCall.airWires) = KnownComponents - 1

\* C1 witness: three points, one known edge joining two of them, one air wire
C1_Witness ==
    /\ Built /\ NumPoints = 3 /\ CandidatesConnect
    /\ KnownComponents = 2
    /\ Len(lastCall.airWires) = 1

(***************************************************************************)
(* C2: with no known edges, buildAirWires returns max(0, P - 1) air wires  *)
(* for every set of P points.                                              *)
(***************************************************************************)
C2_CountWithoutKnownEdges ==
    (Built /\ NoKnownEdges)
        => Len(lastCall.airWires) = (IF NumPoints = 0 THEN 0 ELSE NumPoints - 1)

(***************************************************************************)
(* C3: after buildAirWires every point is reachable from every other       *)
(* through known edges and returned air wires.                             *)
(***************************************************************************)
C3_AllPointsConnected ==
    (Built /\ NumPoints >= 1)
        => Cardinality(Components(Ids(lastCall.points),
                                  KnownPairs(lastCall.edges) \cup EmittedPairs)) = 1

(***************************************************************************)
(* C4: if the known edges connect all registered points, buildAirWires     *)
(* returns no air wire.                                                    *)
(***************************************************************************)
C4_SpanningKnownEdges ==
    (Built /\ NumPoints >= 1 /\ KnownComponents = 1) => lastCall.airWires = <<>>

\* C4 witness: two or more points spanned by known edges, candidate edges
\* generated, no air wire returned
C4_Witness ==
    /\ Built /\ NumPoints >= 2 /\ KnownComponents = 1
    /\ Len(lastCall.edges) > lastCall.connectedEdges
    /\ lastCall.airWires = <<>>

(***************************************************************************)
(* C5: for three unconnected points that are not on one line the air wires *)
(* are the two shortest of the three segments between them (the minimum    *)
(* spanning tree by squared length).                                       *)
(***************************************************************************)
C5_TriangleMst ==
    (Built /\ NumPoints = 3 /\ NoKnownEdges /\ ~OnOneLine(lastCall.points))
        => LET d01 == Dist2(lastCall.points[1], lastCall.points[2])
               d02 == Dist2(lastCall.points[1], lastCall.points[3])
               d12 == Dist2(lastCall.points[2], lastCall.points[3])
               longest == IF d01 >= d02 /\ d01 >= d12 THEN d01
                          ELSE IF d02 >= d12 THEN d02 ELSE d12
           IN  /\ Len(lastCall.airWires) = 2
               /\ SumEmitted = d01 + d02 + d12 - longest

(***************************************************************************)
(* C6: for three or more distinct unconnected points on one line the air   *)
(* wires are exactly the segments between points that are neighbours       *)
(* along the line.                                                         *)
(***************************************************************************)
C6_CollinearPath ==
    (Built /\ NumPoints >= 3 /\ NoKnownEdges
           /\ OnOneLine(lastCall.points) /\ Distinct(lastCall.points))
        => /\ EmittedPairs = AdjacentPairs(lastCall.points)
           /\ Len(lastCall.airWires) = NumPoints - 1

C8_PartlyConnectedLine ==
    (Built /\ NumPoints >= 3
           /\ OnOneLine(lastCall.points) /\ Distinct(lastCall.points)
           /\ ~NoKnownEdges
           /\ KnownPairs(lastCall.edges) \subseteq AdjacentPairs(lastCall.points))
        => /\ EmittedPairs = AdjacentPairs(lastCall.points) \ KnownPairs(lastCall.edges)
           /\ Len(lastCall.airWires) = Cardinality(EmittedPairs)

(***************************************************************************)
(* C9: the returned air wires have the least total weight among all sets   *)
(* of candidate edges that, together with the known edges, connect the     *)
(* same components: no set of candidate edges of smaller total weight      *)
(* yields the components that known edges and air wires yield.             *)
(***************************************************************************)
C9_MinimumTotalWeight ==
    Built =>
        LET edges    == lastCall.edges
            separate == [i \in Ids(lastCall.points) |-> i]
            known    == Merged(edges, DOMAIN edges \ CandidateIndices(edges), separate)
            result   == Merged(lastCall.emitted, DOMAIN lastCall.emitted, known)
        IN  \A S \in SUBSET CandidateIndices(edges) :
                SumWeights(edges, S) < SumEmitted => Merged(edges, S, known) # result

\* C9 witness: three points, a known edge, three candidate edges of which
\* one is heavier than the single air wire returned
C9_Witness ==
    /\ Built /\ NumPoints = 3 /\ ~NoKnownEdges
    /\ Cardinality(CandidateIndices(lastCall.edges)) = 3
    /\ Len(lastCall.airWires) = 1
    /\ \E i \in CandidateIndices(lastCall.edges) :
           lastCall.edges[i].weight > SumEmitted

(***************************************************************************)
(* C10: a known self-edge, or a known edge that repeats one added before,  *)
(* does not change the air-wire lists buildAirWires can return: for every  *)
(* builder state before the call, appending such an edge leaves the set of *)
(* possible results as it is.                                              *)
(***************************************************************************)
C10_HarmlessKnownEdges ==
    (calls = 0) =>
        LET cands   == CandidateEdges(mPoints)
            without == AirWireListsFrom(mPoints, mEdges, cands)
        IN  \A e \in SelfEdges(mPoints) \cup RepeatedEdges(mEdges) :
                AirWireListsFrom(mPoints, Append(mEdges, e), cands) = without

\* C10 witness: a call with three points and a known self-edge that returned
\* two air wires
C10_Witness ==
    /\ Built /\ NumPoints = 3 /\ lastCall.connectedEdges = 1
    /\ lastCall.edges[1] \in SelfEdges(lastCall.points)
    /\ Len(lastCall.airWires) = 2

(***************************************************************************)
(* C11: buildAirWires keeps no memory between calls: a second call on the  *)
(* same builder, with no point or edge registered in between, returns an   *)
(* air-wire list that a call on the builder's points and the known edges   *)
(* given to the first call returns.                                        *)
(***************************************************************************)
C11_SecondCallSame ==
    [][ (calls = 1 /\ calls' = 2)
        => lastCall'.airWires \in
              AirWireLists(mPoints, SubSeq(lastCall.edges, 1, lastCall.connectedEdges)) ]_vars

\* the end points of the edge are points that addPoint registered
Registered(points, e) ==
    \A v \in { e.p1, e.p2 } : v.id \in Ids(points) /\ At(points, v.id) = v

(***************************************************************************)
(* C12: addEdge called with an id that no addPoint returned fails fast:    *)
(* no edge is stored for it, so every stored known edge joins two          *)
(* registered points and none has an undefined end point.                  *)
(***************************************************************************)
C12_UnregisteredIdRejected ==
    \A i \in DOMAIN mEdges : Registered(mPoints, mEdges[i])

\* the squared Euclidean distance of two points, in exact integers
SquaredLength(p, q) == (p.x - q.x) * (p.x - q.x) + (p.y - q.y) * (p.y - q.y)

(***************************************************************************)
(* C13: in a call of buildAirWires the edges present on entry stay as they *)
(* are, weight included, and the edges appended are weighted with their    *)
(* squared length; they are none for 0 or 1 points, the one edge of the    *)
(* two points for 2 points, and for 3 or more points a path through all    *)
(* points in ascending x when the collinearity test succeeds and the edges *)
(* of the triangulation when it fails.                                     *)
(***************************************************************************)
C13_CandidateBranches ==
    [][ (calls' = calls + 1)
        => LET n     == Len(mPoints)
               all   == lastCall'.edges
               k     == Len(mEdges)
               cand  == SubSeq(all, k + 1, Len(all))
               pairs == { IdPair(cand[i]) : i \in DOMAIN cand }
           IN  /\ lastCall'.connectedEdges = k
               /\ SubSeq(all, 1, k) = mEdges
               /\ \A i \in DOMAIN cand :
                     cand[i].weight = SquaredLength(cand[i].p1, cand[i].p2)
               /\ n <= 1 => cand = <<>>
               /\ n = 2 => Len(cand) = 1 /\ pairs = { {0, 1} }
               /\ (n >= 3 /\ ArePointsColinear(mPoints))
                     => /\ Len(cand) = n - 1
                        /\ UNION pairs = Ids(mPoints)
                        /\ \A i \in DOMAIN cand :
                              /\ cand[i].p1.x <= cand[i].p2.x
                              /\ i < n - 1 => cand[i].p2 = cand[i + 1].p1
               /\ (n >= 3 /\ ~ArePointsColinear(mPoints))
                     => pairs = { {e[1] - 1, e[2] - 1} : e \in DelaunayEdgePairs(mPoints) } ]_vars

\* a call on three points off one line and one known edge: three edges of
\* the triangulation follow the known edge, which has kept its weight
C13_Witness ==
    /\ Built
    /\ NumPoints = 3
    /\ ~ArePointsColinear(lastCall.points)
    /\ lastCall.connectedEdges = 1
    /\ Len(lastCall.edges) = 4
    /\ lastCall.edges[1].weight = KnownWeight
    /\ \A i \in 2 .. 4 : lastCall.edges[i].weight > 0

\* the squared length of an air wire
AirWireLength(w) == SquaredLength(w[1], w[2])

SquaredLengthExact(p, q) ==
    AddExact(SquareExact(Abs(p.x - q.x)), SquareExact(Abs(p.y - q.y)))

(***************************************************************************)
(* C16: the weight of every candidate edge is the exact squared Euclidean  *)
(* distance of its two end points in nanometres, without rounding.         *)
(***************************************************************************)
C16_ExactWeight ==
    Built
    => \A i \in DOMAIN lastCall.edges :
          i > lastCall.connectedEdges
          => lastCall.edges[i].weight
                = SquaredLengthExact(lastCall.edges[i].p1, lastCall.edges[i].p2)

\* the values the example of setSteps counts through
ExampleValues ==
    { v \in 0 .. 2500000 :
        (v < 1000000 /\ v % 100000 = 0) \/ (v >= 1000000 /\ v % 1000000 = 0) }

(***************************************************************************)
(* C15: with the step list {0.1 mm, 1.0 mm}, single steps up from 0.0 mm   *)
(* visit 0.1 mm, ..., 0.9 mm, 1.0 mm, 2.0 mm, ...: at each of these values *)
(* below the maximum, 0.0 mm included, a step up is available, and its     *)
(* increment is 0.1 mm below 1.0 mm and 1.0 mm from 1.0 mm upward.         *)
(***************************************************************************)
C15_ExampleSteps ==
    (mSteps = ExampleSteps /\ mValue \in ExampleValues /\ mValue < mMaximum)
    => /\ StepUpEnabled
       /\ mSingleStepUp = (IF mValue < 1000000 THEN 100000 ELSE 1000000)

(***************************************************************************)
(* C17: no air wire comes from a known edge: every returned pair is the    *)
(* end-point pair of an edge the candidate generator appended in this      *)
(* call, of weight >= 0, and no edge of the sentinel weight -1 is copied   *)
(* to the output.                                                          *)
(***************************************************************************)
C17_OnlyCandidatesEmitted ==
    Built
    => /\ Len(lastCall.emitted) = Len(lastCall.airWires)
       /\ \A i \in DOMAIN lastCall.emitted :
             LET e == lastCall.emitted[i]
             IN  /\ e.weight >= 0
                 /\ \E j \in (lastCall.connectedEdges + 1) .. Len(lastCall.edges) :
                       lastCall.edges[j] = e
                 /\ lastCall.airWires[i] = << [x |-> e.p1.x, y |-> e.p1.y],
                                              [x |-> e.p2.x, y |-> e.p2.y] >>

\* a call in which a known edge has merged two of three points and one air
\* wire was returned
C17_Witness ==
    /\ Built
    /\ NumPoints = 3
    /\ lastCall.connectedEdges = 1
    /\ Cardinality(IdPair(lastCall.edges[1])) = 2
    /\ Len(lastCall.airWires) = 1
    /\ lastCall.emitted[1].weight > 0

\* the runs of kruskalMst in a call of buildAirWires on the builder as it
\* is, the candidate edges being cand
RunsWith(cand) ==
    KruskalRuns(mPoints, WeightEdges(mEdges \o cand, Len(mEdges)))

\* the edge processed in the iteration that starts in the k-th state of a run
ProcessedAt(run, k) == run[k].edges[Len(run[k].edges)]

\* the iterations of a run
Iterations(run) == 1 .. (Len(run) - 1)

(***************************************************************************)
(* C18: in every run of the selector each known edge that is processed is  *)
(* processed before any candidate edge, the candidate edges are processed  *)
(* in non-decreasing weight, and no known edge is processed once an air    *)
(* wire has been emitted.                                                  *)
(***************************************************************************)
C18_ProcessingOrder ==
    (calls = 0)
    => \A cand \in CandidateEdges(mPoints) : \A run \in RunsWith(cand) :
          \A k \in Iterations(run) :
             LET dt == ProcessedAt(run, k)
             IN  /\ run[k].mst # <<>> => dt.weight >= 0
                 /\ \A j \in 1 .. (k - 1) :
                       LET before == ProcessedAt(run, j)
                       IN  /\ dt.weight < 0 => before.weight < 0
                           /\ before.weight >= 0 => before.weight <= dt.weight

\* a builder on which a run processes a known edge that merges two points,
\* then a candidate edge and then a heavier candidate edge, and emits an
\* air wire
C18_Witness ==
    /\ calls = 0
    /\ \E cand \in CandidateEdges(mPoints) : \E run \in RunsWith(cand) :
          /\ run[Len(run)].mst # <<>>
          /\ \E i \in Iterations(run), j \in Iterations(run), k \in Iterations(run) :
                /\ i < j /\ j < k
                /\ ProcessedAt(run, i).weight < 0
                /\ run[i + 1].tags # run[i].tags
                /\ ProcessedAt(run, j).weight >= 0
                /\ ProcessedAt(run, j).weight < ProcessedAt(run, k).weight

\* the edge processed in iteration k of the run is a candidate edge whose
\* end points carry the same tag
SameTagCandidate(run, k) ==
    LET dt == ProcessedAt(run, k)
    IN  dt.weight >= 0 /\ run[k].tags[dt.p1.id] = run[k].tags[dt.p2.id]

(***************************************************************************)
(* C19: a candidate edge whose end points carry the same tag when it is    *)
(* processed is discarded: no air wire is emitted for it and no tag        *)
(* changes.  The returned air wires close no cycle in the graph of known   *)
(* edges and air wires: each of them lowers the number of components of    *)
(* that graph by one.                                                      *)
(***************************************************************************)
C19_NoCycle ==
    /\ (calls = 0)
       => \A cand \in CandidateEdges(mPoints) : \A run \in RunsWith(cand) :
             \A k \in Iterations(run) :
                SameTagCandidate(run, k)
                => /\ run[k + 1].mst = run[k].mst
                   /\ run[k + 1].tags = run[k].tags
                   /\ run[k + 1].mstSize = run[k].mstSize
                   /\ Len(run[k + 1].edges) = Len(run[k].edges) - 1
    /\ (Built /\ NumPoints >= 1)
       => Cardinality(Components(Ids(lastCall.points),
                                       KnownPairs(lastCall.edges) \cup EmittedPairs))
                   = KnownComponents - Len(lastCall.airWires)

\* a builder on which a run discards a candidate edge and emits a later
\* candidate edge as the air wire
C19_Witness ==
    /\ calls = 0
    /\ \E cand \in CandidateEdges(mPoints) : \E run \in RunsWith(cand) :
          /\ Len(run[Len(run)].mst) = 1
          /\ \E k \in Iterations(run) :
                SameTagCandidate(run, k) /\ run[k].mst = <<>>

\* the partition of the points induced by the tags of a state of the run
TagPartition(s) ==
    { { j \in DOMAIN s.tags : s.tags[j] = s.tags[i] } : i \in DOMAIN s.tags }

\* the id pairs of the known edges processed before the k-th state of a run
ProcessedKnownPairs(run, k) ==
    { IdPair(ProcessedAt(run, j)) :
        j \in { i \in 1 .. (k - 1) : ProcessedAt(run, i).weight < 0 } }

\* the id pairs of the air wires emitted before the k-th state of a run
EmittedPairsAt(run, k) ==
    { IdPair(run[k].emitted[i]) : i \in DOMAIN run[k].emitted }

(***************************************************************************)
(* C20: at any point of the selector's run, the point before the first     *)
(* edge is processed included, two points have the same tag if and only if *)
(* a path of known edges and of air wires emitted so far joins them.       *)
(***************************************************************************)
C20_TagsMatchConnectivity ==
    (calls = 0)
    => \A cand \in CandidateEdges(mPoints) : \A run \in RunsWith(cand) :
          \A k \in DOMAIN run :
             TagPartition(run[k])
                = Components(Ids(mPoints),
                             KnownPairs(mEdges) \cup EmittedPairsAt(run, k))

(***************************************************************************)
(* C20, amended: at any point of the selector's run two points have the    *)
(* same tag if and only if a path of known edges processed so far and of   *)
(* air wires emitted so far joins them.                                    *)
(***************************************************************************)
C20_TagsMatchProcessed ==
    (calls = 0)
    => \A cand \in CandidateEdges(mPoints) : \A run \in RunsWith(cand) :
          \A k \in DOMAIN run :
             TagPartition(run[k])
                = Components(Ids(mPoints),
                             ProcessedKnownPairs(run, k) \cup EmittedPairsAt(run, k))

\* a builder of three points on which a run has two components after the
\* known edge is processed and one after the air wire is emitted
C20_Witness ==
    /\ calls = 0
    /\ Len(mPoints) = 3
    /\ \E cand \in CandidateEdges(mPoints) : \E run \in RunsWith(cand) :
          /\ Cardinality(TagPartition(run[1])) = 3
          /\ \E k \in DOMAIN run :
                Cardinality(TagPartition(run[k])) = 2 /\ run[k].mst = <<>>
          /\ Cardinality(TagPartition(run[Len(run)])) = 1
          /\ Len(run[Len(run)].mst) = 1

\* the ids in the membership list of tag t in a state of the run
Members(s, t) == { s.cycles[t][i] : i \in DOMAIN s.cycles[t] }

(***************************************************************************)
(* C21: after each iteration of the selector loop two points carry the     *)
(* same tag if and only if a path of edges processed so far (known edges   *)
(* popped, air wires emitted) joins them, and for every tag t the list     *)
(* cycles[t] holds exactly the ids of the points whose tag is t, each      *)
(* once; the list of a tag that was absorbed is empty.                     *)
(***************************************************************************)
C21_TagsAndLists ==
    (calls = 0)
    => \A cand \in CandidateEdges(mPoints) : \A run \in RunsWith(cand) :
          \A k \in DOMAIN run :
             /\ TagPartition(run[k])
                   = Components(Ids(mPoints),
                                ProcessedKnownPairs(run, k) \cup EmittedPairsAt(run, k))
             /\ \A t \in DOMAIN run[k].cycles :
                   /\ Members(run[k], t) = { i \in DOMAIN run[k].tags : run[k].tags[i] = t }
                   /\ Len(run[k].cycles[t]) = Cardinality(Members(run[k], t))

\* a builder of three points on which a run ends with one list of three
\* ids and two empty lists, one merge made by a known edge and one by an
\* air wire
C21_Witness ==
    /\ calls = 0
    /\ Len(mPoints) = 3
    /\ \E cand \in CandidateEdges(mPoints) : \E run \in RunsWith(cand) :
          LET last == run[Len(run)]
          IN  /\ \E t \in DOMAIN last.cycles : Len(last.cycles[t]) = 3
              /\ Cardinality({ t \in DOMAIN last.cycles : last.cycles[t] = <<>> }) = 2
              /\ Len(last.mst) = 1
              /\ last.mstExpectedSize = 1

\* iteration k of the run merges two components
Merges(run, k) ==
    LET dt == ProcessedAt(run, k)
    IN  run[k].tags[dt.p1.id] # run[k].tags[dt.p2.id]

\* the tags of the two end points of the edge processed in iteration k
SrcTag(run, k) == run[k].tags[ProcessedAt(run, k).p1.id]
TrgTag(run, k) == run[k].tags[ProcessedAt(run, k).p2.id]

\* the number of points that carry tag t in a state of the run
GroupSize(s, t) == Cardinality({ i \in DOMAIN s.tags : s.tags[i] = t })

(***************************************************************************)
(* C22: when an edge merges two components the smaller group is retagged   *)
(* to the tag of the larger one: the tag that survives the merge is the    *)
(* tag of a group that had at least as many points as the other.           *)
(***************************************************************************)
C22_UnionBySize ==
    (calls = 0)
    => \A cand \in CandidateEdges(mPoints) : \A run \in RunsWith(cand) :
          \A k \in Iterations(run) :
             Merges(run, k)
             => LET both == { SrcTag(run, k), TrgTag(run, k) }
                IN  \A t \in both :
                       GroupSize(run[k + 1], t) > 0
                       => \A u \in both : GroupSize(run[k], t) >= GroupSize(run[k], u)

(***************************************************************************)
(* C22, amended: when an edge merges two components the points of the      *)
(* group of its second end point are retagged to the tag of the group of   *)
(* its first end point, whatever the sizes of the two groups; the tags of  *)
(* all other points stay.                                                  *)
(***************************************************************************)
C22_TargetIntoSource ==
    (calls = 0)
    => \A cand \in CandidateEdges(mPoints) : \A run \in RunsWith(cand) :
          \A k \in Iterations(run) :
             Merges(run, k)
             => \A i \in DOMAIN run[k].tags :
                   run[k + 1].tags[i]
                      = (IF run[k].tags[i] = TrgTag(run, k)
                         THEN SrcTag(run, k) ELSE run[k].tags[i])

\* a builder on which a run retags a group of two points to the tag of a
\* single point
C22_Witness ==
    /\ calls = 0
    /\ \E cand \in CandidateEdges(mPoints) : \E run \in RunsWith(cand) :
          \E k \in Iterations(run) :
             /\ Merges(run, k)
             /\ GroupSize(run[k], TrgTag(run, k)) = 2
             /\ GroupSize(run[k], SrcTag(run, k)) = 1
             /\ GroupSize(run[k + 1], SrcTag(run, k)) = 3

\* the position of an edge in the edge list of a call (known edges first,
\* then the candidate edges in the order the generator appended them)
PositionIn(list, e) == CHOOSE i \in DOMAIN list : list[i] = e

(***************************************************************************)
(* C23: candidate edges of equal weight are processed in the order in      *)
(* which the candidate generator produced them, and the air-wire list      *)
(* returned for a given builder is the same on every run.                  *)
(***************************************************************************)
C23_StableOrder ==
    (calls = 0)
    => /\ \A cand \in CandidateEdges(mPoints) : \A run \in RunsWith(cand) :
             LET list == WeightEdges(mEdges \o cand, Len(mEdges))
             IN  \A j \in Iterations(run), k \in Iterations(run) :
                    LET first == ProcessedAt(run, j)
                        next  == ProcessedAt(run, k)
                    IN  (j < k /\ first.weight >= 0 /\ first.weight = next.weight
                               /\ first # next)
                        => PositionIn(list, first) < PositionIn(list, next)
       /\ Cardinality(AirWireLists(mPoints, mEdges)) = 1

\* the number of merges performed before the k-th state of a run: the
\* iterations whose edge joined two groups with different tags
MergesBefore(run, k) ==
    Cardinality({ j \in 1 .. (k - 1) : Merges(run, j) })

(***************************************************************************)
(* C24: the selector loop ends after at most one iteration per stored      *)
(* edge, each iteration removing one edge, and it stops exactly when the   *)
(* number of merges performed equals point count - 1 or the edge list is   *)
(* exhausted; with zero points the expected size wraps around and no       *)
(* iteration is executed.                                                  *)
(***************************************************************************)
C24_LoopStops ==
    (calls = 0)
    => \A cand \in CandidateEdges(mPoints) : \A run \in RunsWith(cand) :
          /\ Len(run) - 1 <= Len(mEdges) + Len(cand)
          /\ \A k \in Iterations(run) :
                Len(run[k + 1].edges) = Len(run[k].edges) - 1
          /\ \A k \in 1 .. Len(run) :
                (k = Len(run))
                <=> \/ MergesBefore(run, k) = Len(mPoints) - 1
                    \/ run[k].edges = <<>>
          /\ (Len(mPoints) = 0)
             => /\ run[1].mstExpectedSize = UIntMax
                /\ Len(run) = 1

\* a builder on which a run joins all points with a known edge and an air
\* wire and stops with a candidate edge left in the list
C24_Witness ==
    /\ calls = 0
    /\ \E cand \in CandidateEdges(mPoints) : \E run \in RunsWith(cand) :
          LET last == run[Len(run)]
          IN  /\ last.edges # <<>>
              /\ Len(last.mst) >= 1
              /\ MergesBefore(run, Len(run)) > Len(last.mst)
              /\ MergesBefore(run, Len(run)) = Len(mPoints) - 1

(***************************************************************************)
(* C25: direction angles that differ by a half turn count as equal: a      *)
(* point on the line through the first two points passes the collinearity  *)
(* test on either side of the first point, for every direction of the      *)
(* line, the horizontal one included.                                      *)
(***************************************************************************)
C25_HalfTurnEqual ==
    \A i \in 2 .. (Len(mPoints) - 1) :
        LET p0 == At(mPoints, 0)
            p1 == At(mPoints, 1)
            p  == At(mPoints, i)
        IN  (~SamePlace(p0, p1) /\ Cross(Vec(p0, p1), Vec(p0, p)) = 0)
            => ~PointOffLine(mPoints, i)

\* the candidate edges of the last call
LastCandidates ==
    SubSeq(lastCall.edges, lastCall.connectedEdges + 1, Len(lastCall.edges))

\* the last call took the branch for points on one line: its candidate
\* edges are a path through all points
TookPath ==
    LET cand == LastCandidates
    IN  /\ Len(cand) = NumPoints - 1
        /\ \A i \in 1 .. (Len(cand) - 1) : cand[i].p2 = cand[i + 1].p1

\* the last call took the triangulation branch: its candidate edges are
\* those of the triangulation
TookTriangulation ==
    { IdPair(LastCandidates[i]) : i \in DOMAIN LastCandidates }
        = { {e[1] - 1, e[2] - 1} : e \in DelaunayEdgePairs(lastCall.points) }

\* the point with index i is farther from the first point than the
\* minimum separation and its direction differs from the reference one
FarAndAside(points, i) ==
    /\ SquaredLength(At(points, 0), At(points, i)) > MinSeparation2
    /\ AngleDiffers(Vec(At(points, 0), At(points, 1)),
                    Vec(At(points, 0), At(points, i)))

(***************************************************************************)
(* C26: the collinearity test examines every point after the first two:    *)
(* the triangulation branch is taken (the candidate edges are no path      *)
(* through the points) whenever some point, at any position,               *)
(* is farther from the first point than the minimum separation and in a    *)
(* direction differing from the reference one, and the path branch is      *)
(* taken only if there is no such point.                                   *)
(***************************************************************************)
C26_EveryPointExamined ==
    (Built /\ NumPoints >= 3)
    => IF \E i \in 2 .. (NumPoints - 1) : FarAndAside(lastCall.points, i)
       THEN ~TookPath
       ELSE TookPath

\* a call on four points of which the first three are on one line and the
\* fourth is not: the triangulation branch was taken
C26_Witness ==
    /\ Built
    /\ NumPoints = 4
    /\ ~FarAndAside(lastCall.points, 2)
    /\ FarAndAside(lastCall.points, 3)
    /\ TookTriangulation
    /\ Len(LastCandidates) > 3

\* the direction of the point with index i from the first point differs
\* from the reference direction
Aside(points, i) ==
    AngleDiffers(Vec(At(points, 0), At(points, 1)),
                 Vec(At(points, 0), At(points, i)))

\* the squared distance of the point with index i from the first point
FromFirst(points, i) == SquaredLength(At(points, 0), At(points, i))

\* d <= 10^12 (one square millimetre in square nanometres), by quotient
\* and remainder to stay inside the 32-bit integer range of TLC
WithinSquareMillimetre(d) ==
    \/ d \div 1000000 < 1000000
    \/ d \div 1000000 = 1000000 /\ d % 1000000 = 0

(***************************************************************************)
(* C27: in the collinearity test a point is ignored only when its squared  *)
(* distance from the first point does not exceed about 1 mm^2 (10^12       *)
(* nm^2), the minimum separation, and every point farther away takes part: *)
(* the path branch is taken exactly when no point beyond 1 mm^2 is off the *)
(* reference direction.                                                    *)
(***************************************************************************)
C27_SquareMillimetre ==
    (Built /\ NumPoints >= 3)
    => (TookPath
        <=> \A i \in 2 .. (NumPoints - 1) :
               Aside(lastCall.points, i)
               => WithinSquareMillimetre(FromFirst(lastCall.points, i)))

(***************************************************************************)
(* C27 as amended: a point is ignored exactly when its squared distance    *)
(* from the first point does not exceed 10^6 nm^2 (a distance of 1 um);    *)
(* every point farther away takes part in the angle comparison.            *)
(***************************************************************************)
C27_SquareMicrometre ==
    (Built /\ NumPoints >= 3)
    => \A i \in 2 .. (NumPoints - 1) :
          Aside(lastCall.points, i)
          => /\ FromFirst(lastCall.points, i) > 1000000 => ~TookPath
             /\ (\A j \in 2 .. (NumPoints - 1) :
                    Aside(lastCall.points, j)
                    => FromFirst(lastCall.points, j) <= 1000000) => TookPath

\* a call in which a point exactly 1 um from the first point and off the
\* reference direction was ignored
C27_Witness ==
    /\ Built
    /\ NumPoints = 3
    /\ Aside(lastCall.points, 2)
    /\ FromFirst(lastCall.points, 2) = 1000000
    /\ TookPath

\* a text that is unparsable or evaluates to a length outside the range
OutsideOrUnparsable(text) ==
    \/ text.outcome # "length"
    \/ text.length < mMinimum
    \/ text.length > mMaximum

\* a length clipped into the range of the edit
Clipped(length) ==
    IF length < mMinimum THEN mMinimum
    ELSE IF length > mMaximum THEN mMaximum
    ELSE length

(***************************************************************************)
(* C28: a length edit constructed with min <= value <= max keeps           *)
(* mMinimum <= mValue <= mMaximum under setValueImpl, stepBy and           *)
(* updateValueFromText: setValueImpl leaves its argument clipped into the  *)
(* range, and a text that is unparsable or outside the range leaves the    *)
(* value and the unit as they were.                                        *)
(***************************************************************************)
C28_ValueInRange ==
    /\ mMinimum <= mValue
    /\ mValue <= mMaximum
    /\ (lastEdit.op = "setValueImpl") => mValue = Clipped(lastEdit.length)
    /\ (lastEdit.op = "updateValueFromText" /\ OutsideOrUnparsable(lastEdit.text))
          => /\ mValue = lastEdit.value
             /\ mUnit = lastEdit.unit

\* a text with another unit's suffix and a length above the maximum was
\* entered: value and unit are those from before
C28_Witness ==
    /\ lastEdit.op = "updateValueFromText"
    /\ lastEdit.text.outcome = "length"
    /\ lastEdit.text.length > mMaximum
    /\ lastEdit.text.suffix \in Units
    /\ lastEdit.text.suffix # lastEdit.unit
    /\ mUnit = lastEdit.unit
    /\ mValue = lastEdit.value
    /\ mValue # 0

\* the last call wrote every file to the temporary files, and to the
\* original files
TemporaryComplete == lastProject.temporary = SaveTargets
OriginalComplete == lastProject.original = SaveTargets

(***************************************************************************)
(* C29: saveProject writes to the original files only after a complete     *)
(* save to the temporary files with an empty error list; the undo stack is *)
(* marked clean and the modified flag cleared only when the save to the    *)
(* original files succeeded; in every failing case (read-only project,     *)
(* active command, a failed file) it returns false and leaves the modified *)
(* flag as it was; and the restored flag is cleared only by a fully        *)
(* successful save to the original files.                                  *)
(***************************************************************************)
C29_SaveInTwoSteps ==
    /\ (lastProject.op = "saveProject")
       => /\ (lastProject.original # {})
                => TemporaryComplete /\ lastProject.errors = 0
          /\ (lastProject.result
                <=> /\ ~mIsReadOnly
                    /\ ~mUndoStack.commandActive
                    /\ TemporaryComplete /\ lastProject.errors = 0
                    /\ OriginalComplete)
          /\ lastProject.result
                => mUndoStack.clean /\ ~mProjectIsModified
          /\ ~lastProject.result
                => /\ mProjectIsModified = lastProject.modified
                   /\ mUndoStack.clean = lastProject.clean
    /\ (lastProject.restored /\ ~mIsRestored)
       => /\ lastProject.op = "saveProject"
          /\ lastProject.result
          /\ OriginalComplete

\* a modified project restored from a backup was saved and one original
\* file failed after the temporary files were complete: saveProject
\* returned false and the flags are as before
C29_Witness ==
    /\ lastProject.op = "saveProject"
    /\ lastProject.modified
    /\ lastProject.restored
    /\ TemporaryComplete
    /\ lastProject.original # {}
    /\ ~OriginalComplete
    /\ ~lastProject.result
    /\ mProjectIsModified
    /\ mIsRestored

(***************************************************************************)
(* C30: after any sequence of addSchematic and removeSchematic no two      *)
(* schematics of the schematic list share a UUID or a name and no          *)
(* schematic is in the schematic list and in the list of removed           *)
(* schematics; an addSchematic rejected for a duplicate UUID or name and a *)
(* removeSchematic rejected for a schematic that is not empty leave both   *)
(* lists unchanged.                                                        *)
(***************************************************************************)
C30_SchematicListsConsistent ==
    /\ \A i, j \in DOMAIN mSchematics :
          (i # j) => /\ mSchematics[i].uuid # mSchematics[j].uuid
                     /\ mSchematics[i].name # mSchematics[j].name
    /\ Range(mSchematics) \cap Range(mRemovedSchematics) = {}
    /\ ( /\ lastProject.op = "addSchematic"
         /\ \E sch \in Range(lastProject.schematics) :
               \/ sch.uuid = lastProject.schematic.uuid
               \/ sch.name = lastProject.schematic.name )
       => /\ mSchematics = lastProject.schematics
          /\ mRemovedSchematics = lastProject.removed
    /\ ( /\ lastProject.op = "removeSchematic"
         /\ ~lastProject.deleteSchematic
         /\ ~lastProject.schematic.empty )
       => /\ mSchematics = lastProject.schematics
          /\ mRemovedSchematics = lastProject.removed

\* with a schematic in the list of removed schematics, a schematic with the
\* name but not the UUID of one in the schematic list was given to
\* addSchematic: both lists are as before
C30_Witness ==
    /\ lastProject.op = "addSchematic"
    /\ mRemovedSchematics # <<>>
    /\ \E sch \in Range(lastProject.schematics) :
          sch.name = lastProject.schematic.name
    /\ \A sch \in Range(lastProject.schematics) :
          sch.uuid # lastProject.schematic.uuid
    /\ mSchematics = lastProject.schematics
    /\ mRemovedSchematics = lastProject.removed

====
